---- MODULE Spec2Model ----
(***************************************************************************)
(* Model of the execution engine of shell.c: the read loop of main, the    *)
(* builtins (cd, exit), execute_nonbuiltin (redirections + exec),          *)
(* execute_simple_command (fork + wait) and execute_complex_command        *)
(* (pipe, two forks, descriptor wiring, two waitpids).                     *)
(*                                                                         *)
(* Every process has its own descriptor table, working directory and       *)
(* program position; one action models one system call (or one builtin).   *)
(* A system call may fail: open(2) and execvp(3) fail as the file system   *)
(* dictates, fork(2)/pipe(2) also when the process or descriptor table is  *)
(* full, and any call may fail for an unspecified reason while the         *)
(* failure budget MaxFail lasts.                                           *)
(*                                                                         *)
(* Spec runs the engine on a host without unspecified failures, SpecFail   *)
(* on one with them, SpecCd walks the directory tree with cd, SpecRedir    *)
(* applies every combination of redirections, and SpecFlow runs pipelines  *)
(* of programs that read and write through pipes of PipeCap bytes.         *)
(***************************************************************************)
EXTENDS Integers, Sequences, FiniteSets, TLC

(* ------------------------------ bounds -------------------------------- *)
MaxStages == 3          \* longest pipeline the driver feeds to the engine
MaxFail   == 1          \* unspecified system-call failures per run
NFds      == 5          \* size of a process's descriptor table
PipeCap   == 2          \* bytes a pipe buffers before a writer blocks
MaxPid    == 2 * (MaxStages - 1)   \* size of the process table (pid 0 is the shell)

(* ------------------------- program constants -------------------------- *)
MAX_DIRNAME  == 100
EXIT_SUCCESS == 0
EXIT_FAILURE == 1
STOP         == -1      \* the value main tests for to leave the loop
CONTINUE     == 0

Pids  == 0..MaxPid
Fds   == 0..(NFds - 1)
Min(a, b) == IF a < b THEN a ELSE b

(* ------------------------------ paths --------------------------------- *)
(* A directory path is a sequence of characters.                          *)
Rep(c, n) == [i \in 1..n |-> c]
Root   == <<"/">>
Slash  == <<"/">>
XLens  == {1, 60, 96, 97}       \* lengths of the first-level names x...x
YLens  == {1, 37, 50}           \* lengths of the second-level names y...y
DirX(a)     == Root \o Rep("x", a)
DirXY(a, b) == DirX(a) \o Slash \o Rep("y", b)
DirP   == <<"/", "p">>                          \* exists, no search permission
DirN   == <<"/", "n">>                          \* does not exist
Dirs     == {Root, DirP} \cup {DirX(a) : a \in XLens}
                         \cup {DirXY(a, b) : a \in XLens, b \in YLens}
NoAccess == {DirP}

(* The kernel's path resolution, for paths without "." or ".." components:
   repeated slashes count as one and a trailing slash is ignored. *)
WithPrev(s) == [i \in 1..Len(s) |-> <<s[i], IF i = 1 THEN "" ELSE s[i - 1]>>]
NotSecondSlash(cp) == ~(cp[1] = "/" /\ cp[2] = "/")
Squeeze(s) ==
    LET t == SelectSeq(WithPrev(s), NotSecondSlash)
    IN  [i \in 1..Len(t) |-> t[i][1]]
Normalize(s) ==
    LET q == Squeeze(s)
    IN  IF Len(q) > 1 /\ q[Len(q)] = "/" THEN SubSeq(q, 1, Len(q) - 1) ELSE q

(* chdir(2) on an absolute path: the new working directory, or <<>> for -1 *)
chdir(path) ==
    LET t == Normalize(path)
    IN  IF t \in Dirs \ NoAccess THEN t ELSE <<>>

(* getcwd(3): the working directory if it fits in size bytes with its
   terminator, <<>> (NULL, ERANGE) otherwise *)
getcwd(wd, size) == IF Len(wd) + 1 <= size THEN wd ELSE <<>>

(* strncat(3): dest followed by at most n characters of src *)
strncat(dest, src, n) == dest \o SubSeq(src, 1, Min(n, Len(src)))

(* is_relative of parser.h: a path is absolute when it starts with a slash *)
is_relative(path) == path[1] # "/"

(* execute_cd with a slip: cd without a path goes to the root directory
   before it reports the failure *)
execute_cd_m(wd, prog, arg) ==
    IF arg = <<>> \/ prog # "cd" THEN [rc |-> EXIT_FAILURE, wd |-> Root]
    ELSE IF ~is_relative(arg)
         THEN IF chdir(arg) = <<>> THEN [rc |-> EXIT_FAILURE, wd |-> wd]
              ELSE [rc |-> EXIT_SUCCESS, wd |-> chdir(arg)]
         ELSE LET dir0 == getcwd(wd, MAX_DIRNAME - 2)
                  dir1 == strncat(dir0, <<"/">>, 1)
                  dir2 == strncat(dir1, arg, MAX_DIRNAME - Len(dir1) - 1)
              IN  IF dir0 = <<>> THEN [rc |-> EXIT_FAILURE, wd |-> wd]
                  ELSE IF chdir(dir2) = <<>> THEN [rc |-> EXIT_FAILURE, wd |-> wd]
                  ELSE [rc |-> EXIT_SUCCESS, wd |-> chdir(dir2)]

(* word 0 is prog, word 1 is arg; <<>> stands for a NULL word 1 *)
execute_cd(wd, prog, arg) ==
    IF arg = <<>> \/ prog # "cd" THEN [rc |-> EXIT_FAILURE, wd |-> wd]
    ELSE IF ~is_relative(arg)
         THEN IF chdir(arg) = <<>> THEN [rc |-> EXIT_FAILURE, wd |-> wd]
              ELSE [rc |-> EXIT_SUCCESS, wd |-> chdir(arg)]
         ELSE LET dir0 == getcwd(wd, MAX_DIRNAME - 2)
                  dir1 == strncat(dir0, <<"/">>, 1)
                  dir2 == strncat(dir1, arg, MAX_DIRNAME - Len(dir1) - 1)
              IN  IF dir0 = <<>> THEN [rc |-> EXIT_FAILURE, wd |-> wd]
                  ELSE IF chdir(dir2) = <<>> THEN [rc |-> EXIT_FAILURE, wd |-> wd]
                  ELSE [rc |-> EXIT_SUCCESS, wd |-> chdir(dir2)]

(* --------------------------- command tree ----------------------------- *)
NULL == "NULL"                       \* an absent redirection path
Files == {"in.txt", "out.txt", "err.txt", "missing.txt", "ro.txt"}
ReadOnly == {"ro.txt"}               \* files the user may read, not write
InPATH == {"prog", "false", "seq", "yes", "cat", "wc", "head"}  \* names execvp finds
(* the status a program ends with *)
ExitOf(prog) == IF prog = "false" THEN 1 ELSE 0

(* is_builtin of parser.h: the builtin kind follows from the first token *)
BuiltinKind(prog) ==
    IF prog = "cd" THEN "BUILTIN_CD"
    ELSE IF prog = "exit" THEN "BUILTIN_EXIT" ELSE "NONE"

SC(prog, arg, in, out, err) ==
    [prog |-> prog, arg |-> arg, in |-> in, out |-> out, err |-> err,
     builtin |-> BuiltinKind(prog)]
Plain(prog) == SC(prog, <<>>, NULL, NULL, NULL)
Cd(arg)     == SC("cd", arg, NULL, NULL, NULL)

(* A parsed line is the sequence of its leaf commands: one leaf is a simple
   command (cmd->scmd set), several are the right-leaning chain
   internal(leaf 1, internal(leaf 2, ...)). *)
SimpleLines ==
    { <<Plain("exit")>>, <<Plain("prog")>>, <<Plain("false")>>,
      <<Plain("badcmd")>>, <<Cd(<<>>)>>, <<Cd(Root)>>, <<Cd(DirN)>>,
      <<SC("prog", <<>>, "in.txt", NULL, NULL)>>,
      <<SC("prog", <<>>, "missing.txt", NULL, NULL)>>,
      <<SC("prog", <<>>, NULL, "out.txt", NULL)>>,
      <<SC("prog", <<>>, NULL, NULL, "err.txt")>>,
      <<SC("prog", <<>>, "in.txt", NULL, "err.txt")>>,
      <<SC("prog", <<>>, "in.txt", "out.txt", "err.txt")>> }

ProgOut == SC("prog", <<>>, NULL, "out.txt", NULL)
ProgIn  == SC("prog", <<>>, "in.txt", NULL, NULL)
Put(n, k, s) == [i \in 1..n |-> IF i = k THEN s ELSE Plain("prog")]
(* pipelines of every length: all external; an unknown program first; cd
   at a stage and exit at the next one round, for every stage; an output
   file on the first stage and an input file on the last, next to the pipe *)
Builtins(n, k) ==
    [i \in 1..n |-> IF i = k THEN Cd(DirX(1))
                    ELSE IF i = (k % n) + 1 THEN Plain("exit")
                    ELSE Plain("prog")]
Files2(n) ==
    [i \in 1..n |-> IF i = 1 THEN ProgOut
                    ELSE IF i = n THEN ProgIn ELSE Plain("prog")]
PipeLines ==
    UNION { { [i \in 1..n |-> Plain("prog")], Put(n, 1, Plain("badcmd")),
              Files2(n) }
            \cup { Builtins(n, k) : k \in 1..n } : n \in 2..MaxStages }
Lines == SimpleLines \cup PipeLines

(* the lines fed to the engine on a host with unspecified failures *)
FailLines ==
    { <<Plain("exit")>>, <<Plain("prog")>>, <<Cd(<<>>)>>,
      <<SC("prog", <<>>, "in.txt", NULL, NULL)>> }
    \cup { [i \in 1..n |-> Plain("prog")] : n \in 2..MaxStages }

(* the lines of the data-flow specification: a writer, copiers and a reader
   in pipelines of every length; an endless writer before a reader that
   stops early, and a finite one; a stage that ends without writing;
   stages whose piped stream is also redirected to a file, at either end and
   in the middle of a pipeline *)
Chain(n) ==
    [i \in 1..n |-> IF i = 1 THEN Plain("seq")
                    ELSE IF i = n THEN Plain("wc") ELSE Plain("cat")]
WcIn   == SC("wc", <<>>, "in.txt", NULL, NULL)
SeqOut == SC("seq", <<>>, NULL, "out.txt", NULL)
FlowLines ==
    { Chain(n) : n \in 2..MaxStages }
    \cup { <<Plain("yes"), Plain("head")>>, <<Plain("seq"), Plain("head")>>,
           <<Plain("badcmd"), Plain("wc")>>, <<Plain("prog"), Plain("false")>>,
           <<SeqOut, Plain("wc")>>, <<Plain("yes"), WcIn>>,
           <<Plain("yes"), WcIn, Plain("wc")>> }

(* the lines of the redirection specification: one external command with
   every combination of an input, an output and an error path, present or
   not, readable or not, writable or not, two of them the same file *)
RedirLines ==
    { <<SC("prog", <<>>, i, o, e)>> :
          i \in {NULL, "in.txt", "missing.txt", "out.txt"},
          o \in {NULL, "out.txt", "missing.txt", "in.txt", "ro.txt"},
          e \in {NULL, "err.txt"} }

(* the lines of the directory-navigation specification: cd with no path,
   with every absolute path, with relative names of every length, and one
   external command *)
CdLines ==
    { <<Cd(<<>>)>>, <<Cd(DirN)>>, <<Cd(<<"n">>)>>, <<Plain("prog")>>, <<Plain("exit")>> }
    \cup { <<Cd(d)>> : d \in Dirs }
    \cup { <<Cd(Rep("x", a))>> : a \in XLens }
    \cup { <<Cd(Rep("y", b))>> : b \in YLens }

(* --------------------------- descriptors ------------------------------ *)
Closed      == [k |-> "closed", n |-> 0, e |-> "",  f |-> ""]
Tty         == [k |-> "tty",    n |-> 0, e |-> "rw", f |-> ""]
PipeEnd(i, e) == [k |-> "pipe", n |-> i, e |-> e,   f |-> ""]
FileObj(f)  == [k |-> "file",   n |-> 0, e |-> "rw", f |-> f]
NoFds  == [i \in Fds |-> Closed]
StdFds == [i \in Fds |-> IF i <= 2 THEN Tty ELSE Closed]
FreeFds(t) == {i \in Fds : t[i] = Closed}
LowestFree(t) == CHOOSE i \in FreeFds(t) : \A j \in FreeFds(t) : i <= j

(* ----------------------------- state ---------------------------------- *)
VARIABLES
    proc,       \* process table: pid -> process (pid 0 is the interpreter)
    fileState,  \* file system: file -> "absent" | "data" | "empty"
    pipeStage,  \* pipe id -> the stage on the left of that pipe (0: unused)
    pipeBuf,    \* pipe id -> bytes written to that pipe and not yet read
    faulty,     \* whether system calls fail for unspecified reasons
    nfail,      \* unspecified system-call failures so far
    exitcode,   \* the last value execute_*_command returned to main
    nforks,     \* processes forked since the current line was read
    npipes,     \* pipes created since the current line was read
    openLog,    \* open(2) calls made since the current line was read
    errout,     \* diagnostics written since the current line was read
    dispatched  \* builtins run in-process since the current line was read

vars == <<proc, fileState, pipeStage, pipeBuf, faulty, nfail, exitcode, nforks,
          npipes, openLog, errout, dispatched>>

PipeIds == 1..(MaxStages - 1)     \* pipes the system can hold open

(* pc "none" marks a free slot of the process table.  cmd/lo/hi: the
   process's copy of the command tree and the node lo..hi it executes;
   pfd, pid1, pid2, tmp: the locals of the function it is in;
   execd: the name it passed to execvp (NULL before that); cnt: the bytes
   the exec'd program has written (or, for a copying program, holds). *)
NoProc == [pc |-> "none", fd |-> NoFds, cwd |-> <<>>, cmd |-> <<>>,
           lo |-> 0, hi |-> 0, pfd |-> <<0, 0>>, pid1 |-> 0, pid2 |-> 0,
           tmp |-> 0, ppid |-> -1, status |-> 0, execd |-> NULL, cnt |-> 0]

Boot ==
    /\ proc = [p \in Pids |->
                 IF p = 0 THEN [NoProc EXCEPT !.pc = "prompt", !.fd = StdFds,
                                              !.cwd = Root]
                 ELSE NoProc]
    /\ fileState = [f \in Files |-> IF f \in {"in.txt", "ro.txt"} THEN "data"
                                    ELSE "absent"]
    /\ pipeStage = [i \in PipeIds |-> 0]
    /\ pipeBuf = [i \in PipeIds |-> 0]
    /\ nfail = 0
    /\ exitcode = 0
    /\ nforks = 0
    /\ npipes = 0
    /\ openLog = {}
    /\ errout = {}
    /\ dispatched = {}

(* a host on which system calls fail only as the file system, the process
   table and the descriptor tables dictate *)
Init == Boot /\ faulty = FALSE

(* a host on which any system call may also fail for an unspecified reason *)
InitFail == Boot /\ faulty = TRUE

(* ------------------------ process primitives -------------------------- *)
Gone == {"none", "zombie", "stopped", "fatal"}
Alive(pr, p) == pr[p].pc \notin Gone
FreePids(pr) == {q \in Pids \ {0} : pr[q].pc = "none"}
NewPid(pr) == CHOOSE q \in FreePids(pr) : \A r \in FreePids(pr) : q <= r
Children(pr, p) == {q \in Pids \ {0} : pr[q].pc # "none" /\ pr[q].ppid = p}
CanFail == faulty /\ nfail < MaxFail

(* exit(st), or return from main: every descriptor is closed, the children
   go to init (their zombies are reaped at once), and while its parent
   lives the process stays a zombie, of which only the status is left. *)
Terminate(pr, p, st) ==
    [q \in Pids |->
       IF q = p
       THEN IF p = 0
            THEN [pr[0] EXCEPT !.pc = IF st = 0 THEN "stopped" ELSE "fatal",
                               !.fd = NoFds, !.status = st]
            ELSE IF pr[p].ppid \in Pids /\ Alive(pr, pr[p].ppid)
                 THEN [NoProc EXCEPT !.pc = "zombie", !.ppid = pr[p].ppid,
                                     !.status = st]
                 ELSE NoProc
       ELSE IF pr[q].pc # "none" /\ pr[q].ppid = p
            THEN IF pr[q].pc = "zombie" THEN NoProc ELSE [pr[q] EXCEPT !.ppid = -1]
            ELSE pr[q]]

(* fork(2): the child is a copy of the parent, at program position cpc *)
Forked(pr, p, q, cpc) ==
    [pr EXCEPT ![q] = [pr[p] EXCEPT !.pc = cpc, !.ppid = p, !.status = 0]]

Say(p, m) == errout \cup {[pid |-> p, msg |-> m]}

(* where execute_nonbuiltin goes first, and after each redirection *)
NbAfterOut(s) == IF s.err # NULL THEN "err_open" ELSE "exec"
NbAfterIn(s)  == IF s.out # NULL THEN "out_open" ELSE NbAfterOut(s)
NbStart(s)    == IF s.in  # NULL THEN "in_open"  ELSE NbAfterIn(s)

(* EccEnter with a slip: a builtin leaf is dispatched instead of exec'd *)
EccEnter_m(cmd, lo, hi) ==
    IF lo = hi
    THEN IF cmd[lo].builtin = "NONE" THEN NbStart(cmd[lo]) ELSE "builtin"
    ELSE "pipe"

(* entry of execute_complex_command on node lo..hi of cmd: a leaf goes to
   execute_nonbuiltin whatever its builtin kind, an internal node to pipe *)
EccEnter(cmd, lo, hi) == IF lo = hi THEN NbStart(cmd[lo]) ELSE "pipe"

PipeRefs == {i \in PipeIds : \E q \in Pids, d \in Fds :
                 proc[q].fd[d].k = "pipe" /\ proc[q].fd[d].n = i}

(* The user types the next line once the processes of the earlier lines
   have stopped running (terminated children not yet waited for may remain). *)
Quiet == \A q \in Pids \ {0} : proc[q].pc \in {"none", "zombie"}

(* main read a line and construct_command built its tree: the counters of
   the line start afresh *)
NewLine ==
    /\ Quiet
    /\ nforks' = 0 /\ npipes' = 0 /\ openLog' = {}
    /\ pipeStage' = [i \in PipeIds |-> IF i \in PipeRefs THEN pipeStage[i] ELSE 0]
    /\ pipeBuf' = [i \in PipeIds |-> IF i \in PipeRefs THEN pipeBuf[i] ELSE 0]

(* return of execute_simple_command / execute_complex_command to main with
   value rc: STOP leaves the loop and main returns 0, anything else goes
   round the loop *)
BackInMain(pr, rc) ==
    IF rc = STOP THEN Terminate(pr, 0, 0)
    ELSE [pr EXCEPT ![0].pc = "prompt", ![0].pfd = <<0, 0>>, ![0].pid1 = 0,
                    ![0].pid2 = 0, ![0].tmp = 0]

(* --------------------- main + execute_simple_command ------------------ *)
(* a line whose root is the builtin exit: return -1 *)
BuiltinExit(l) ==
    /\ proc[0].pc = "prompt"
    /\ Len(l) = 1 /\ l[1].builtin = "BUILTIN_EXIT"
    /\ NewLine
    /\ proc' = BackInMain([proc EXCEPT ![0].cmd = l, ![0].lo = 1, ![0].hi = 1], STOP)
    /\ exitcode' = STOP
    /\ dispatched' = {"exit"}
    /\ errout' = {}
    /\ UNCHANGED <<fileState, faulty, nfail>>

(* a line whose root is the builtin cd: execute_cd, a diagnostic when it
   fails, return 0 *)
BuiltinCd(l) ==
    /\ proc[0].pc = "prompt"
    /\ Len(l) = 1 /\ l[1].builtin = "BUILTIN_CD"
    /\ NewLine
    /\ LET r == execute_cd(proc[0].cwd, l[1].prog, l[1].arg)
       IN  /\ proc' = BackInMain([proc EXCEPT ![0].cmd = l, ![0].lo = 1,
                                              ![0].hi = 1, ![0].cwd = r.wd],
                                 CONTINUE)
           /\ errout' = IF r.rc = EXIT_FAILURE
                        THEN {[pid |-> 0,
                               msg |-> IF l[1].arg = <<>>
                                       THEN "Path expected after cd"
                                       ELSE "perror(tokens[1])"]}
                        ELSE {}
    /\ exitcode' = CONTINUE
    /\ dispatched' = {"cd"}
    /\ UNCHANGED <<fileState, faulty, nfail>>

(* a line whose root is an external leaf: on to the fork *)
StartSimple(l) ==
    /\ proc[0].pc = "prompt"
    /\ Len(l) = 1 /\ l[1].builtin = "NONE"
    /\ NewLine
    /\ proc' = [proc EXCEPT ![0].cmd = l, ![0].lo = 1, ![0].hi = 1,
                            ![0].pc = "esc_fork"]
    /\ errout' = {} /\ dispatched' = {}
    /\ UNCHANGED <<fileState, faulty, nfail, exitcode>>

(* SimpleFork with a slip: the two branches behind the fork are swapped *)
SimpleFork_m ==
    /\ proc[0].pc = "esc_fork"
    /\ FreePids(proc) # {}
    /\ LET q == NewPid(proc)
       IN  proc' = [Forked(proc, 0, q, "esc_wait")
                       EXCEPT ![0].pc = NbStart(proc[0].cmd[1]), ![0].pid1 = q]
    /\ nforks' = nforks + 1
    /\ UNCHANGED <<faulty, nfail, exitcode, errout>>
    /\ UNCHANGED <<pipeBuf, fileState, pipeStage, npipes, openLog, dispatched>>

(* fork of execute_simple_command: the child runs execute_nonbuiltin, the
   parent goes to wait; a failed fork is reported and 0 is returned *)
SimpleFork ==
    /\ proc[0].pc = "esc_fork"
    /\ \/ /\ FreePids(proc) # {}
          /\ LET q == NewPid(proc)
             IN  proc' = [Forked(proc, 0, q, NbStart(proc[0].cmd[1]))
                             EXCEPT ![0].pc = "esc_wait", ![0].pid1 = q]
          /\ nforks' = nforks + 1
          /\ UNCHANGED <<faulty, nfail, exitcode, errout>>
       \/ /\ FreePids(proc) = {} \/ CanFail
          /\ UNCHANGED faulty
          /\ nfail' = IF FreePids(proc) = {} THEN nfail ELSE nfail + 1
          /\ proc' = BackInMain(proc, CONTINUE)
          /\ errout' = Say(0, "fork")
          /\ exitcode' = CONTINUE
          /\ UNCHANGED nforks
    /\ UNCHANGED <<pipeBuf, fileState, pipeStage, npipes, openLog, dispatched>>

(* SimpleWait with a slip: the child's status decides what is returned *)
SimpleWait_m ==
    /\ proc[0].pc = "esc_wait"
    /\ \E q \in Children(proc, 0) :
          /\ proc[q].pc = "zombie"
          /\ LET rc == IF proc[q].status = 0 THEN CONTINUE ELSE STOP
             IN  /\ proc' = BackInMain([proc EXCEPT ![q] = NoProc], rc)
                 /\ exitcode' = rc
    /\ UNCHANGED <<faulty, nfail, errout>>
    /\ UNCHANGED <<pipeBuf, fileState, pipeStage, nforks, npipes, openLog, dispatched>>

(* wait of execute_simple_command: collects any one terminated child; with
   no child at all, or on failure, it reports and 0 is returned anyway *)
SimpleWait ==
    /\ proc[0].pc = "esc_wait"
    /\ \/ \E q \in Children(proc, 0) :
             /\ proc[q].pc = "zombie"
             /\ proc' = BackInMain([proc EXCEPT ![q] = NoProc], CONTINUE)
             /\ UNCHANGED <<faulty, nfail, errout>>
       \/ /\ Children(proc, 0) = {} \/ CanFail
          /\ UNCHANGED faulty
          /\ nfail' = IF Children(proc, 0) = {} THEN nfail ELSE nfail + 1
          /\ proc' = BackInMain(proc, CONTINUE)
          /\ errout' = Say(0, "wait")
    /\ exitcode' = CONTINUE
    /\ UNCHANGED <<pipeBuf, fileState, pipeStage, nforks, npipes, openLog, dispatched>>

(* ------------------- execute_nonbuiltin, execute_command -------------- *)
O_RDONLY == "O_RDONLY"
O_TRUNC  == "O_CREAT|O_RDWR|O_TRUNC"

(* Die with a slip: the failure is reported and the process goes on *)
Die_m(p, m) ==
    /\ proc' = proc
    /\ errout' = Say(p, m)

(* perror(m); exit(1) *)
Die(p, m) ==
    /\ proc' = Terminate(proc, p, 1)
    /\ errout' = Say(p, m)

(* open(2) can succeed on file system fs with descriptor table fd: the path
   is a string (open(NULL) is EFAULT), the file is there or gets created,
   it may be written when it is opened for writing, and the table has room *)
CanOpen(fs, fd, path, flags) ==
    /\ path # NULL
    /\ flags = O_RDONLY => fs[path] # "absent"
    /\ flags = O_TRUNC => path \notin ReadOnly
    /\ FreeFds(fd) # {}

OpenOk(p, path, flags) == CanOpen(fileState, proc[p].fd, path, flags)

(* the paths the three branches hand to open(2) *)
InOpenPath(s)  == s.in
OutOpenPath(s) == s.out
ErrOpenPath(s) == s.in

Leaf(p) == proc[p].cmd[proc[p].lo]
Opened(p, target, path, flags, ok) ==
    openLog \cup {[stage |-> proc[p].lo, stream |-> target, path |-> path,
                   flags |-> flags, ok |-> ok]}

(* one branch of execute_nonbuiltin: open, dup2 onto the standard
   descriptor target, close the opened descriptor; any of the three failing
   ends the process.  at is the position before the branch, after the one
   behind it, name what perror is given when open fails. *)
Redirect(p, at, path, flags, name, target, after) ==
    /\ proc[p].pc = at
    /\ \/ /\ OpenOk(p, path, flags)
          /\ proc' = [proc EXCEPT ![p].fd[target] = FileObj(path),
                                  ![p].pc = after]
          /\ fileState' = IF flags = O_TRUNC
                          THEN [fileState EXCEPT ![path] = "empty"]
                          ELSE fileState
          /\ openLog' = Opened(p, target, path, flags, TRUE)
          /\ UNCHANGED <<faulty, nfail, errout>>
       \/ /\ ~OpenOk(p, path, flags) \/ CanFail
          /\ UNCHANGED faulty
          /\ nfail' = IF OpenOk(p, path, flags) THEN nfail + 1 ELSE nfail
          /\ Die(p, name)
          /\ openLog' = Opened(p, target, path, flags, FALSE)
          /\ UNCHANGED fileState
       \/ /\ OpenOk(p, path, flags) /\ CanFail
          /\ UNCHANGED faulty
          /\ nfail' = nfail + 1
          /\ \E m \in {"dup2", "close"} : Die(p, m)
          /\ fileState' = IF flags = O_TRUNC
                          THEN [fileState EXCEPT ![path] = "empty"]
                          ELSE fileState
          /\ openLog' = Opened(p, target, path, flags, TRUE)
    /\ UNCHANGED <<pipeBuf, pipeStage, exitcode, nforks, npipes, dispatched>>

RedirectIn(p) ==
    Redirect(p, "in_open", InOpenPath(Leaf(p)), O_RDONLY, Leaf(p).in, 0,
             NbAfterIn(Leaf(p)))
(* RedirectOut with a slip: the opened file is left on the descriptor open
   gave and is not made standard output *)
RedirectOut_m(p) ==
    Redirect(p, "out_open", OutOpenPath(Leaf(p)), O_TRUNC, Leaf(p).out,
             LowestFree(proc[p].fd), NbAfterOut(Leaf(p)))

RedirectOut(p) ==
    Redirect(p, "out_open", OutOpenPath(Leaf(p)), O_TRUNC, Leaf(p).out, 1,
             NbAfterOut(Leaf(p)))
RedirectErr(p) ==
    Redirect(p, "err_open", ErrOpenPath(Leaf(p)), O_TRUNC, Leaf(p).err, 2,
             "exec")

(* The three branches of execute_nonbuiltin as functions of the state they
   act on: st.fs is the file system, st.fd the descriptor table of the
   process and st.ok whether the process still lives.  A branch does
   nothing when its path is not set. *)
Streams == {"in", "out", "err"}
BranchSet(s, stream) ==
    IF stream = "in" THEN s.in # NULL
    ELSE IF stream = "out" THEN s.out # NULL ELSE s.err # NULL
BranchPath(s, stream) ==
    IF stream = "in" THEN InOpenPath(s)
    ELSE IF stream = "out" THEN OutOpenPath(s) ELSE ErrOpenPath(s)
BranchFlags(stream) == IF stream = "in" THEN O_RDONLY ELSE O_TRUNC
BranchTarget(stream) ==
    IF stream = "in" THEN 0 ELSE IF stream = "out" THEN 1 ELSE 2

(* Branch with a slip: the opened descriptor is not made the standard one *)
Branch_m(st, s, stream) ==
    IF ~st.ok \/ ~BranchSet(s, stream) THEN st
    ELSE LET path  == BranchPath(s, stream)
             flags == BranchFlags(stream)
         IN  IF CanOpen(st.fs, st.fd, path, flags)
             THEN [st EXCEPT !.fs = IF flags = O_TRUNC
                                    THEN [st.fs EXCEPT ![path] = "empty"]
                                    ELSE st.fs]
             ELSE [st EXCEPT !.fd = NoFds, !.ok = FALSE]

Branch(st, s, stream) ==
    IF ~st.ok \/ ~BranchSet(s, stream) THEN st
    ELSE LET path  == BranchPath(s, stream)
             flags == BranchFlags(stream)
         IN  IF CanOpen(st.fs, st.fd, path, flags)
             THEN [fs |-> IF flags = O_TRUNC
                          THEN [st.fs EXCEPT ![path] = "empty"]
                          ELSE st.fs,
                   fd |-> [st.fd EXCEPT ![BranchTarget(stream)] = FileObj(path)],
                   ok |-> TRUE]
             ELSE [st EXCEPT !.fd = NoFds, !.ok = FALSE]

(* the branches applied in the order ord to the file system fs by a process
   that starts with the interpreter's descriptors, and whether the program
   is exec'd in the end *)
Outcome(ord, s, fs) ==
    LET st0 == [fs |-> fs, fd |-> StdFds, ok |-> TRUE]
        st3 == Branch(Branch(Branch(st0, s, ord[1]), s, ord[2]), s, ord[3])
    IN  [fs |-> st3.fs, fd |-> st3.fd, execd |-> st3.ok /\ s.prog \in InPATH]

CodeOrder == <<"in", "out", "err">>
Orders == {o \in [1..3 -> Streams] : \A i, j \in 1..3 : o[i] = o[j] => i = j}

(* Exec with a slip: after a failed lookup execute_command returns and the
   process goes back up to the read loop *)
Exec_m(p) ==
    /\ proc[p].pc = "exec"
    /\ IF Leaf(p).prog \in InPATH
       THEN /\ proc' = [proc EXCEPT ![p].pc = "running",
                                    ![p].execd = Leaf(p).prog]
            /\ UNCHANGED errout
       ELSE /\ proc' = [proc EXCEPT ![p].pc = "prompt"]
            /\ errout' = Say(p, Leaf(p).prog)
    /\ UNCHANGED <<pipeBuf, fileState, pipeStage, faulty, nfail, exitcode, nforks, npipes,
                   openLog, dispatched>>

(* execute_command: execvp replaces the image, or the lookup fails and the
   process reports the name and exits with status 1 *)
Exec(p) ==
    /\ proc[p].pc = "exec"
    /\ IF Leaf(p).prog \in InPATH
       THEN /\ proc' = [proc EXCEPT ![p].pc = "running",
                                    ![p].execd = Leaf(p).prog]
            /\ UNCHANGED errout
       ELSE /\ proc' = Terminate(proc, p, 1)
            /\ errout' = Say(p, Leaf(p).prog)
    /\ UNCHANGED <<pipeBuf, fileState, pipeStage, faulty, nfail, exitcode, nforks, npipes,
                   openLog, dispatched>>

(* the exec'd program ends, with a status of its own *)
ProgramExit(p) ==
    /\ proc[p].pc = "running"
    /\ proc' = Terminate(proc, p, ExitOf(proc[p].execd))
    /\ UNCHANGED <<pipeBuf, fileState, pipeStage, faulty, nfail, exitcode, nforks, npipes,
                   openLog, errout, dispatched>>

(* ------------------------- exec'd programs ---------------------------- *)
(* What the programs of the data-flow specification do with descriptors 0
   and 1: seq writes SeqBytes bytes and ends; yes writes until it is
   killed; cat copies its input to its output, wc reads its input, both to
   the end of the input; head reads one byte and ends; prog and false end
   without reading or writing. *)
SeqBytes == PipeCap + 1
Readers(i) == {q \in Pids : \E d \in Fds : proc[q].fd[d] = PipeEnd(i, "r")}
Writers(i) == {q \in Pids : \E d \in Fds : proc[q].fd[d] = PipeEnd(i, "w")}

WantsWrite(p) ==
    \/ proc[p].execd = "seq" /\ proc[p].cnt < SeqBytes
    \/ proc[p].execd = "yes"
    \/ proc[p].execd = "cat" /\ proc[p].cnt = 1
WantsRead(p) ==
    \/ proc[p].execd \in {"wc", "head"}
    \/ proc[p].execd = "cat" /\ proc[p].cnt = 0
SelfEnding(p) ==
    \/ proc[p].execd \in {"prog", "false"}
    \/ proc[p].execd = "seq" /\ proc[p].cnt = SeqBytes

(* the process after a write(1, ...) of one byte that succeeded *)
Wrote(p) ==
    [proc EXCEPT ![p].cnt = IF proc[p].execd = "seq" THEN @ + 1
                            ELSE IF proc[p].execd = "cat" THEN 0 ELSE @]

(* write(2) of one byte on descriptor 1.  On a terminal or a file it
   succeeds; on a pipe it succeeds while the buffer has room, blocks while
   the buffer is full and some process holds the read end, and kills the
   process (SIGPIPE) when no process holds the read end. *)
ProgWrite(p) ==
    /\ proc[p].pc = "running" /\ WantsWrite(p)
    /\ LET out == proc[p].fd[1]
       IN  \/ /\ out.k \in {"tty", "file"}
              /\ proc' = Wrote(p)
              /\ fileState' = IF out.k = "file"
                              THEN [fileState EXCEPT ![out.f] = "data"]
                              ELSE fileState
              /\ UNCHANGED pipeBuf
           \/ /\ out.k = "pipe" /\ Readers(out.n) # {}
              /\ pipeBuf[out.n] < PipeCap
              /\ proc' = Wrote(p)
              /\ pipeBuf' = [pipeBuf EXCEPT ![out.n] = @ + 1]
              /\ UNCHANGED fileState
           \/ /\ out.k = "pipe" /\ Readers(out.n) = {}
              /\ proc' = Terminate(proc, p, 1)
              /\ UNCHANGED <<pipeBuf, fileState>>
    /\ UNCHANGED <<pipeStage, faulty, nfail, exitcode, nforks, npipes, openLog,
                   errout, dispatched>>

(* the process after a read(0, ...) that returned a byte: head ends *)
HasRead(p) ==
    IF proc[p].execd = "head" THEN Terminate(proc, p, 0)
    ELSE [proc EXCEPT ![p].cnt = IF proc[p].execd = "cat" THEN 1 ELSE @]

(* read(2) on descriptor 0.  A terminal or a file is at its end (the user
   types the end of input; the file has been read); a pipe gives a byte
   when it has one, blocks while it is empty and some process holds the
   write end, and is at its end when it is empty and no process holds the
   write end.  At the end of its input the program ends with status 0. *)
ProgRead(p) ==
    /\ proc[p].pc = "running" /\ WantsRead(p)
    /\ LET in == proc[p].fd[0]
       IN  \/ /\ in.k \in {"tty", "file"}
              /\ proc' = Terminate(proc, p, 0)
              /\ UNCHANGED pipeBuf
           \/ /\ in.k = "pipe" /\ pipeBuf[in.n] > 0
              /\ proc' = HasRead(p)
              /\ pipeBuf' = [pipeBuf EXCEPT ![in.n] = @ - 1]
           \/ /\ in.k = "pipe" /\ pipeBuf[in.n] = 0 /\ Writers(in.n) = {}
              /\ proc' = Terminate(proc, p, 0)
              /\ UNCHANGED pipeBuf
    /\ UNCHANGED <<fileState, pipeStage, faulty, nfail, exitcode, nforks, npipes,
                   openLog, errout, dispatched>>

(* a program that has nothing left to read or write ends *)
ProgEnd(p) == SelfEnding(p) /\ ProgramExit(p)

(* ----------------------- execute_complex_command ---------------------- *)
(* a line whose root is an internal node: main calls
   execute_complex_command, which goes to pipe *)
StartPipeline(l) ==
    /\ proc[0].pc = "prompt"
    /\ Len(l) > 1
    /\ NewLine
    /\ proc' = [proc EXCEPT ![0].cmd = l, ![0].lo = 1, ![0].hi = Len(l),
                            ![0].pc = EccEnter(l, 1, Len(l))]
    /\ errout' = {} /\ dispatched' = {}
    /\ UNCHANGED <<fileState, faulty, nfail, exitcode>>

FreePipeIds == PipeIds \ PipeRefs
PipeOk(p) == Cardinality(FreeFds(proc[p].fd)) >= 2 /\ FreePipeIds # {}

(* pipe(pfd) *)
Pipe(p) ==
    /\ proc[p].pc = "pipe"
    /\ \/ /\ PipeOk(p)
          /\ LET i == CHOOSE i \in FreePipeIds : \A j \in FreePipeIds : i <= j
                 r == LowestFree(proc[p].fd)
                 w == LowestFree([proc[p].fd EXCEPT ![r] = PipeEnd(i, "r")])
             IN  /\ proc' = [proc EXCEPT ![p].fd[r] = PipeEnd(i, "r"),
                                         ![p].fd[w] = PipeEnd(i, "w"),
                                         ![p].pfd = <<r, w>>,
                                         ![p].pc = "fork1"]
                 /\ pipeStage' = [pipeStage EXCEPT ![i] = proc[p].lo]
                 /\ pipeBuf' = [pipeBuf EXCEPT ![i] = 0]
          /\ npipes' = npipes + 1
          /\ UNCHANGED <<faulty, nfail, errout>>
       \/ /\ ~PipeOk(p) \/ CanFail
          /\ UNCHANGED faulty
          /\ nfail' = IF PipeOk(p) THEN nfail + 1 ELSE nfail
          /\ Die(p, "pipe")
          /\ UNCHANGED <<pipeStage, pipeBuf, npipes>>
    /\ UNCHANGED <<fileState, exitcode, nforks, openLog, dispatched>>

(* the two forks: pid1 runs the left child of the node, pid2 the right *)
ForkAt(p, at, cpc, ppc) ==
    /\ proc[p].pc = at
    /\ \/ /\ FreePids(proc) # {}
          /\ LET q == NewPid(proc)
             IN  proc' = [Forked(proc, p, q, cpc) EXCEPT
                             ![p].pc = ppc,
                             ![p].pid1 = IF at = "fork1" THEN q ELSE @,
                             ![p].pid2 = IF at = "fork2" THEN q ELSE @]
          /\ nforks' = nforks + 1
          /\ UNCHANGED <<faulty, nfail, errout>>
       \/ /\ FreePids(proc) = {} \/ CanFail
          /\ UNCHANGED faulty
          /\ nfail' = IF FreePids(proc) = {} THEN nfail ELSE nfail + 1
          /\ Die(p, "fork")
          /\ UNCHANGED nforks
    /\ UNCHANGED <<pipeBuf, fileState, pipeStage, exitcode, npipes, openLog, dispatched>>

(* Fork1 with a slip: the parent waits for the first child before it forks
   the second *)
Fork1_m(p) == ForkAt(p, "fork1", "child1", "wait1")

Fork1(p) == ForkAt(p, "fork1", "child1", "fork2")
Fork2(p) == ForkAt(p, "fork2", "child2", "parent")

(* a run of close/dup2 calls that gives process table ok when all succeed;
   when one fails for an unspecified reason: perror; exit(1) *)
Calls(p, ok) ==
    \/ /\ proc' = ok
       /\ UNCHANGED <<faulty, nfail, errout>>
    \/ /\ CanFail /\ UNCHANGED faulty /\ nfail' = nfail + 1
       /\ \E m \in {"close", "dup2"} : Die(p, m)

(* first child: close the read end, stdout := write end, close the write
   end, execute_complex_command(c->cmd1) *)
Child1(p) ==
    /\ proc[p].pc = "child1"
    /\ LET r == proc[p].pfd[1]
           w == proc[p].pfd[2]
       IN  Calls(p, [proc EXCEPT
                       ![p].fd = [[[@ EXCEPT ![r] = Closed]
                                      EXCEPT ![1] = proc[p].fd[w]]
                                      EXCEPT ![w] = Closed],
                       ![p].pfd = <<0, 0>>,
                       ![p].hi = proc[p].lo,
                       ![p].pc = EccEnter(proc[p].cmd, proc[p].lo, proc[p].lo)])
    /\ UNCHANGED <<pipeBuf, fileState, pipeStage, exitcode, nforks, npipes, openLog,
                   dispatched>>

(* Child2 with a slip: the right child is run as a leaf, not recursively *)
Child2_m(p) ==
    /\ proc[p].pc = "child2"
    /\ LET r == proc[p].pfd[1]
           w == proc[p].pfd[2]
       IN  Calls(p, [proc EXCEPT
                       ![p].fd = [[[@ EXCEPT ![w] = Closed]
                                      EXCEPT ![0] = proc[p].fd[r]]
                                      EXCEPT ![r] = Closed],
                       ![p].pfd = <<0, 0>>,
                       ![p].pid1 = 0,
                       ![p].lo = proc[p].lo + 1,
                       ![p].hi = proc[p].lo + 1,
                       ![p].pc = NbStart(proc[p].cmd[proc[p].lo + 1])])
    /\ UNCHANGED <<pipeBuf, fileState, pipeStage, exitcode, nforks, npipes, openLog,
                   dispatched>>

(* Child2 with a slip: the write end is not closed *)
Child2_w(p) ==
    /\ proc[p].pc = "child2"
    /\ LET r == proc[p].pfd[1]
       IN  Calls(p, [proc EXCEPT
                       ![p].fd = [[@ EXCEPT ![0] = proc[p].fd[r]]
                                     EXCEPT ![r] = Closed],
                       ![p].pfd = <<0, 0>>,
                       ![p].pid1 = 0,
                       ![p].lo = proc[p].lo + 1,
                       ![p].pc = EccEnter(proc[p].cmd, proc[p].lo + 1, proc[p].hi)])
    /\ UNCHANGED <<pipeBuf, fileState, pipeStage, exitcode, nforks, npipes, openLog,
                   dispatched>>

(* second child: close the write end, stdin := read end, close the read
   end, execute_complex_command(c->cmd2) *)
Child2(p) ==
    /\ proc[p].pc = "child2"
    /\ LET r == proc[p].pfd[1]
           w == proc[p].pfd[2]
       IN  Calls(p, [proc EXCEPT
                       ![p].fd = [[[@ EXCEPT ![w] = Closed]
                                      EXCEPT ![0] = proc[p].fd[r]]
                                      EXCEPT ![r] = Closed],
                       ![p].pfd = <<0, 0>>,
                       ![p].pid1 = 0,
                       ![p].lo = proc[p].lo + 1,
                       ![p].pc = EccEnter(proc[p].cmd, proc[p].lo + 1, proc[p].hi)])
    /\ UNCHANGED <<pipeBuf, fileState, pipeStage, exitcode, nforks, npipes, openLog,
                   dispatched>>

(* ParentClose with a slip: the write end is left open *)
ParentClose_m(p) ==
    /\ proc[p].pc = "parent"
    /\ \/ /\ proc' = [proc EXCEPT ![p].fd[proc[p].pfd[1]] = Closed,
                                  ![p].pc = "wait1"]
          /\ UNCHANGED <<faulty, nfail, errout>>
       \/ /\ CanFail /\ UNCHANGED faulty /\ nfail' = nfail + 1
          /\ Die(p, "close")
    /\ UNCHANGED <<pipeBuf, fileState, pipeStage, exitcode, nforks, npipes, openLog,
                   dispatched>>

(* the parent closes both ends of its pipe *)
ParentClose(p) ==
    /\ proc[p].pc = "parent"
    /\ \/ /\ proc' = [proc EXCEPT
                        ![p].fd = [[@ EXCEPT ![proc[p].pfd[1]] = Closed]
                                      EXCEPT ![proc[p].pfd[2]] = Closed],
                        ![p].pc = "wait1"]
          /\ UNCHANGED <<faulty, nfail, errout>>
       \/ /\ CanFail /\ UNCHANGED faulty /\ nfail' = nfail + 1
          /\ Die(p, "close")
    /\ UNCHANGED <<pipeBuf, fileState, pipeStage, exitcode, nforks, npipes, openLog,
                   dispatched>>

(* EccReturn with a slip: -1 is returned *)
EccReturn_m(pr, p) ==
    IF p = 0 THEN BackInMain(pr, STOP) ELSE Terminate(pr, p, 0)

(* return 0 of execute_complex_command: to main in the interpreter, to the
   exit(0) behind the recursive call in a child *)
EccReturn(pr, p) ==
    IF p = 0 THEN BackInMain(pr, CONTINUE) ELSE Terminate(pr, p, 0)

(* WaitPid with a slip: the second child is not waited for *)
WaitPid_m(p) ==
    /\ proc[p].pc = "wait1"
    /\ LET q == proc[p].pid1
       IN  /\ q \in Children(proc, p) /\ proc[q].pc = "zombie"
           /\ proc' = EccReturn([proc EXCEPT ![q] = NoProc], p)
           /\ exitcode' = IF p = 0 THEN CONTINUE ELSE exitcode
    /\ UNCHANGED <<faulty, nfail, errout>>
    /\ UNCHANGED <<pipeBuf, fileState, pipeStage, nforks, npipes, openLog, dispatched>>

(* waitpid(pid1), then waitpid(pid2): each blocks until that child has
   terminated; a failure is reported and the process exits *)
WaitPid(p) ==
    /\ proc[p].pc \in {"wait1", "wait2"}
    /\ LET q == IF proc[p].pc = "wait1" THEN proc[p].pid1 ELSE proc[p].pid2
           reaped == [proc EXCEPT ![q] = NoProc]
       IN  \/ /\ q \in Children(proc, p) /\ proc[q].pc = "zombie"
              /\ proc' = IF proc[p].pc = "wait1"
                         THEN [reaped EXCEPT ![p].pc = "wait2"]
                         ELSE EccReturn(reaped, p)
              /\ exitcode' = IF p = 0 /\ proc[p].pc = "wait2" THEN CONTINUE
                             ELSE exitcode
              /\ UNCHANGED <<faulty, nfail, errout>>
           \/ /\ q \notin Children(proc, p) \/ CanFail
              /\ UNCHANGED faulty
              /\ nfail' = IF q \in Children(proc, p) THEN nfail + 1 ELSE nfail
              /\ Die(p, "waitpid")
              /\ UNCHANGED exitcode
    /\ UNCHANGED <<pipeBuf, fileState, pipeStage, nforks, npipes, openLog, dispatched>>

(* ------------------------------ system -------------------------------- *)
Engine ==
    \/ SimpleFork
    \/ SimpleWait
    \/ \E p \in Pids : Pipe(p)
    \/ \E p \in Pids : Fork1(p)
    \/ \E p \in Pids : Fork2(p)
    \/ \E p \in Pids : Child1(p)
    \/ \E p \in Pids : Child2(p)
    \/ \E p \in Pids : ParentClose(p)
    \/ \E p \in Pids : WaitPid(p)
    \/ \E p \in Pids : RedirectIn(p)
    \/ \E p \in Pids : RedirectOut(p)
    \/ \E p \in Pids : RedirectErr(p)
    \/ \E p \in Pids : Exec(p)
    \/ \E p \in Pids : ProgramExit(p)

Next ==
    \/ \E l \in Lines : BuiltinExit(l)
    \/ \E l \in Lines : BuiltinCd(l)
    \/ \E l \in Lines : StartSimple(l)
    \/ \E l \in Lines : StartPipeline(l)
    \/ Engine

Spec == Init /\ [][Next]_vars

(* the same engine on a host with unspecified failures *)
NextFail ==
    \/ \E l \in FailLines : BuiltinExit(l)
    \/ \E l \in FailLines : BuiltinCd(l)
    \/ \E l \in FailLines : StartSimple(l)
    \/ \E l \in FailLines : StartPipeline(l)
    \/ SimpleFork
    \/ SimpleWait
    \/ \E p \in Pids : Pipe(p)
    \/ \E p \in Pids : Fork1(p)
    \/ \E p \in Pids : Fork2(p)
    \/ \E p \in Pids : Child1(p)
    \/ \E p \in Pids : Child2(p)
    \/ \E p \in Pids : ParentClose(p)
    \/ \E p \in Pids : WaitPid(p)
    \/ \E p \in Pids : RedirectIn(p)
    \/ \E p \in Pids : Exec(p)
    \/ \E p \in Pids : ProgramExit(p)

SpecFail == InitFail /\ [][NextFail]_vars

(* data flow: pipelines of programs that read and write.  Every process is
   scheduled again and again: a step it can take for ever, it takes. *)
FlowStep(p) ==
    \/ Pipe(p) \/ Fork1(p) \/ Fork2(p) \/ Child1(p) \/ Child2(p)
    \/ ParentClose(p) \/ WaitPid(p)
    \/ RedirectIn(p) \/ RedirectOut(p) \/ Exec(p)
    \/ ProgWrite(p) \/ ProgRead(p) \/ ProgEnd(p)

NextFlow ==
    \/ \E l \in FlowLines : StartPipeline(l)
    \/ \E p \in Pids : Pipe(p)
    \/ \E p \in Pids : Fork1(p)
    \/ \E p \in Pids : Fork2(p)
    \/ \E p \in Pids : Child1(p)
    \/ \E p \in Pids : Child2(p)
    \/ \E p \in Pids : ParentClose(p)
    \/ \E p \in Pids : WaitPid(p)
    \/ \E p \in Pids : RedirectIn(p)
    \/ \E p \in Pids : RedirectOut(p)
    \/ \E p \in Pids : Exec(p)
    \/ \E p \in Pids : ProgWrite(p)
    \/ \E p \in Pids : ProgRead(p)
    \/ \E p \in Pids : ProgEnd(p)

SpecFlow == Init /\ [][NextFlow]_vars /\ \A p \in Pids : WF_vars(FlowStep(p))

(* redirections: leaf commands with every combination of paths *)
NextRedir ==
    \/ \E l \in RedirLines : StartSimple(l)
    \/ SimpleFork
    \/ SimpleWait
    \/ \E p \in Pids : RedirectIn(p)
    \/ \E p \in Pids : RedirectOut(p)
    \/ \E p \in Pids : RedirectErr(p)
    \/ \E p \in Pids : Exec(p)
    \/ \E p \in Pids : ProgramExit(p)

SpecRedir == Init /\ [][NextRedir]_vars

(* directory navigation: cd lines over the whole directory tree, with an
   external command and exit in between *)
NextCd ==
    \/ \E l \in CdLines : BuiltinExit(l)
    \/ \E l \in CdLines : BuiltinCd(l)
    \/ \E l \in CdLines : StartSimple(l)
    \/ SimpleFork
    \/ SimpleWait
    \/ \E p \in Pids : Exec(p)
    \/ \E p \in Pids : ProgramExit(p)

SpecCd == Init /\ [][NextCd]_vars

(* ============================ properties ============================== *)
Shell     == proc[0]
AtPrompt  == Shell.pc = "prompt"
Line      == Shell.cmd                 \* the line last read by main
IsPipeline == Len(Line) >= 2
Others    == Pids \ {0}
Holds(p, i, e) == \E d \in Fds : proc[p].fd[d] = PipeEnd(i, e)

(* C1, as stated: when a pipeline of N leaf commands has returned to the
   driver, exactly N-1 pipes were created and exactly N processes forked. *)
C1_Original ==
    (AtPrompt /\ IsPipeline) => (npipes = Len(Line) - 1 /\ nforks = Len(Line))

(* C1, amended: a pipeline of N leaf commands never has more than N-1 pipes
   and 2(N-1) forked processes, and when it has returned to the driver
   exactly N-1 pipes were created and exactly 2(N-1) processes forked (two
   by each of the N-1 orchestrating processes). *)
C1_PipesAndForks ==
    IsPipeline =>
        /\ npipes <= Len(Line) - 1
        /\ nforks <= 2 * (Len(Line) - 1)
        /\ AtPrompt => (npipes = Len(Line) - 1 /\ nforks = 2 * (Len(Line) - 1))

C1_Witness ==
    AtPrompt /\ Len(Line) = 3 /\ npipes = 2 /\ nforks = 4

(* C2: when no system call has failed for an unspecified reason, the
   interpreter is back in the driver only when every process forked for the
   line has exited: no other process is alive at a prompt. *)
C2_AllExitedAtPrompt ==
    (nfail = 0 /\ AtPrompt) => \A q \in Others : ~Alive(proc, q)

C2_Witness ==
    /\ faulty /\ nfail = 0 /\ AtPrompt /\ Len(Line) = 3 /\ nforks = 4
    /\ \A q \in Others : proc[q].pc = "none"

(* C3: the interpreter's descriptors 0, 1 and 2 refer to the files they
   were opened on at start in every state in which the interpreter lives,
   whatever leaf, builtin or pipeline it runs. *)
C3_ShellStdioKept ==
    Alive(proc, 0) => \A d \in 0..2 : Shell.fd[d] = Tty

C3_Witness ==
    /\ AtPrompt /\ Len(Line) = 1
    /\ Line[1].in # NULL /\ Line[1].out # NULL
    /\ \E e \in openLog : e.stream = 1 /\ e.ok
    /\ \A d \in 0..2 : Shell.fd[d] = Tty

(* descriptor setup is complete: a leaf is at or behind its exec, an
   orchestrating process is waiting for its children *)
LeafReady(p) == proc[p].lo = proc[p].hi /\ proc[p].pc \in {"exec", "running"}
Orchestrating(p) == proc[p].pc \in {"wait1", "wait2"}

(* C4, as stated: among the processes whose descriptor setup is complete,
   the write end of a pipe is held only by the leaf running the stage on its
   left, the read end only by the leaf running the stage on its right, and
   an orchestrating process holds no end of any pipe. *)
C4_Original ==
    \A p \in Pids : \A i \in PipeIds :
        /\ (LeafReady(p) /\ Holds(p, i, "w")) => proc[p].lo = pipeStage[i]
        /\ (LeafReady(p) /\ Holds(p, i, "r")) => proc[p].lo = pipeStage[i] + 1
        /\ Orchestrating(p) => ~Holds(p, i, "w") /\ ~Holds(p, i, "r")

(* C4, amended: among the processes whose descriptor setup is complete, the
   write end of a pipe is held only by the leaf running the stage on its
   left; the read end is held only by the leaf running the stage on its
   right and, as descriptor 0 and nowhere else, by the nested orchestrating
   child whose chain starts with that stage; the interpreter holds no end of
   any pipe. *)
C4_PipeEndHolders ==
    \A p \in Pids : \A i \in PipeIds :
        /\ (LeafReady(p) /\ Holds(p, i, "w")) => proc[p].lo = pipeStage[i]
        /\ (LeafReady(p) /\ Holds(p, i, "r")) => proc[p].lo = pipeStage[i] + 1
        /\ Orchestrating(p) =>
              /\ ~Holds(p, i, "w")
              /\ \A d \in Fds : proc[p].fd[d] = PipeEnd(i, "r") =>
                     (p # 0 /\ d = 0 /\ proc[p].lo = pipeStage[i] + 1)

C4_Witness ==
    \E p \in Others : \E i \in PipeIds :
        /\ proc[p].pc = "wait1" /\ proc[p].fd[0] = PipeEnd(i, "r")
        /\ Shell.pc = "wait2"
        /\ \E q \in Others : LeafReady(q) /\ Holds(q, i, "r")

TopLevelExit == Len(Line) = 1 /\ Line[1].builtin = "BUILTIN_EXIT"

(* C5: a top-level exit returns STOP, ends the read loop and forks nothing;
   STOP is returned for no other line: after a leaf external command, a cd
   or a pipeline the interpreter is at the prompt with CONTINUE. *)
C5_StopOnlyOnExit ==
    /\ TopLevelExit =>
          (Shell.pc = "stopped" /\ exitcode = STOP /\ nforks = 0
           /\ \A q \in Others : proc[q].pc = "none")
    /\ (exitcode = STOP \/ Shell.pc = "stopped") => TopLevelExit
    /\ (AtPrompt /\ Line # <<>>) => exitcode = CONTINUE

C5_Witness ==
    /\ Shell.pc = "stopped" /\ exitcode = STOP /\ nforks = 0
    /\ dispatched = {"exit"}

(* the positions of execute_nonbuiltin *)
NonBuiltinPath == {"in_open", "out_open", "err_open", "exec", "running"}
BuiltinStages == {k \in 1..Len(Line) : Line[k].builtin # "NONE"}

(* C6: a cd or exit that is a stage of a pipeline is never run as a builtin:
   the process that executes that leaf is a forked child on the path of
   execute_nonbuiltin, in the interpreter's working directory; no builtin is
   dispatched, the interpreter's working directory stays what it was and
   the interpreter is not stopped; when the pipeline has returned, each such
   stage has had its name looked up by exec (the failed lookup is reported
   by a child). *)
C6_NoBuiltinInPipeline ==
    /\ \A p \in Pids :
          (Alive(proc, p) /\ Len(proc[p].cmd) >= 2
           /\ proc[p].lo = proc[p].hi
           /\ Leaf(p).builtin # "NONE"
           /\ proc[p].pc \notin {"child1", "child2"})
          => /\ p # 0
             /\ proc[p].pc \in NonBuiltinPath
             /\ proc[p].cwd = Shell.cwd
    /\ IsPipeline =>
          /\ dispatched = {} /\ Shell.cwd = Root /\ exitcode # STOP
          /\ Shell.pc # "stopped"
          /\ AtPrompt =>
                \A k \in BuiltinStages :
                    \E e \in errout : e.pid # 0 /\ e.msg = Line[k].prog

C6_Witness ==
    /\ AtPrompt /\ Len(Line) = 3 /\ Line[2].builtin = "BUILTIN_CD"
    /\ \E e \in errout : e.msg = "cd"
    /\ Shell.cwd = Root /\ dispatched = {}

(* C7, as stated: for an external simple command with errorPath set, the
   only file opened for standard error is the one errorPath names, opened
   with create/truncate, it is descriptor 2 of the exec'd program, and the
   redirections truncate no file that only inputPath names. *)
C7_ErrorPathOpened ==
    Len(Line) = 1 =>
        /\ \A e \in openLog :
              e.stream = 2 => (e.path = Line[1].err /\ e.flags = O_TRUNC)
        /\ \A p \in Others :
              (proc[p].pc = "running" /\ Leaf(p).err # NULL)
                  => proc[p].fd[2] = FileObj(Leaf(p).err)
        /\ fileState["in.txt"] = "data"

(* the names perror is given when fork, pipe, dup2, close or open fails *)
SetupMsgs == {"fork", "pipe", "dup2", "close"} \cup Files

(* C8, as stated: a process that reports a failure of fork, pipe, dup2,
   close or open is terminated by the step that reports it, the interpreter
   included. *)
C8_Original ==
    [][\A e \in errout' \ errout :
          e.msg \in SetupMsgs => ~Alive(proc', e.pid)]_vars

(* C8, amended: a process that reports a failure of fork, pipe, dup2, close
   or open is terminated by the step that reports it (the interpreter ends
   with a failure status) and no other living process is affected; except
   that the interpreter, when the fork of execute_simple_command fails,
   reports it and returns CONTINUE to the driver. *)
C8_FailureEndsProcess ==
    [][\A e \in errout' \ errout :
          e.msg \in SetupMsgs =>
             IF e.pid = 0 /\ proc[0].pc = "esc_fork"
             THEN e.msg = "fork" /\ proc'[0].pc = "prompt" /\ exitcode' = CONTINUE
             ELSE /\ ~Alive(proc', e.pid)
                  /\ e.pid = 0 => proc'[0].pc = "fatal"
                  /\ \A q \in Pids \ {e.pid} :
                        Alive(proc, q) => proc'[q].pc = proc[q].pc]_vars

C8_Witness ==
    /\ AtPrompt /\ Len(Line) = 1 /\ nfail = 1
    /\ [pid |-> 0, msg |-> "fork"] \in errout

(* a step of the cd builtin, its path argument and the directory it is
   issued from *)
CdStep == AtPrompt /\ proc'[0].pc = "prompt" /\ dispatched' = {"cd"}
CdArg  == proc'[0].cmd[1].arg
CdDiag == {[pid |-> 0, msg |-> IF CdArg = <<>> THEN "Path expected after cd"
                                ELSE "perror(tokens[1])"]}
CdFails ==
    \/ CdArg = <<>>
    \/ CdArg # <<>> /\ CdArg[1] = "/" /\ Normalize(CdArg) \notin Dirs \ NoAccess
    \/ execute_cd(Shell.cwd, "cd", CdArg).rc = EXIT_FAILURE

(* C9: a cd that fails (no path, an absolute path that does not exist or
   may not be entered, or any cd for which execute_cd returns failure)
   leaves the working directory as it was, writes one diagnostic, forks no
   process, leaves every descriptor and every other process alone, and
   gives CONTINUE to the driver. *)
C9_FailingCd ==
    [][(CdStep /\ CdFails) =>
          /\ proc'[0].cwd = Shell.cwd
          /\ errout' = CdDiag
          /\ nforks' = 0
          /\ proc'[0].fd = Shell.fd
          /\ \A q \in Others : proc'[q] = proc[q]
          /\ exitcode' = CONTINUE]_vars

C9_Witness ==
    /\ AtPrompt /\ Line = <<Cd(DirN)>>
    /\ errout = {[pid |-> 0, msg |-> "perror(tokens[1])"]}
    /\ Shell.cwd = DirX(60) /\ nforks = 0

(* C10, as stated: cd with a relative path p issued in directory d ends in
   the directory, and with the outcome, of cd with the absolute path
   d "/" p. *)
C10_RelativeAsAbsolute ==
    [][(CdStep /\ CdArg # <<>> /\ is_relative(CdArg)) =>
          LET r == execute_cd(Shell.cwd, "cd", Shell.cwd \o Slash \o CdArg)
          IN  /\ proc'[0].cwd = r.wd
              /\ (errout' # {}) <=> (r.rc = EXIT_FAILURE)]_vars

(* a top-level leaf whose program execvp does not find *)
LookupFails ==
    /\ Len(Line) = 1 /\ Line[1].builtin = "NONE" /\ Line[1].prog \notin InPATH
    /\ Line[1].in = NULL /\ Line[1].out = NULL /\ Line[1].err = NULL
(* the interpreter collects its terminated child q in this step *)
Reaps(q) ==
    /\ Shell.pc \in {"esc_wait", "wait1", "wait2"}
    /\ proc[q].pc = "zombie" /\ proc[q].ppid = 0 /\ proc'[q].pc = "none"

(* C11: for a top-level leaf whose program lookup fails at most one process
   is forked and it never runs a program nor reaches the driver; once it has
   terminated its status is not 0; when the interpreter is back at the
   prompt exactly one process was forked, that child reported the name, it
   was collected and the dispatcher returned CONTINUE.  In general, a step
   in which the interpreter collects a child goes where the wait's position
   alone decides (on to the second waitpid, or back to the prompt with
   CONTINUE), whatever the status of the child. *)
C11_LookupFailure ==
    /\ [](LookupFails =>
            /\ nforks <= 1
            /\ \A q \in Others :
                  /\ proc[q].pc \notin {"prompt", "running", "esc_fork", "esc_wait"}
                  /\ proc[q].pc = "zombie" => proc[q].status # 0
            /\ AtPrompt =>
                  /\ nforks = 1 /\ exitcode = CONTINUE
                  /\ \E q \in Others : errout = {[pid |-> q, msg |-> Line[1].prog]}
                  /\ \A q \in Others : proc[q].pc = "none")
    /\ [][\A q \in Others :
             Reaps(q) =>
                /\ proc'[0].pc = IF Shell.pc = "wait1" THEN "wait2" ELSE "prompt"
                /\ proc'[0].pc = "prompt" => exitcode' = CONTINUE]_vars

C11_Witness ==
    /\ AtPrompt /\ LookupFails /\ nforks = 1 /\ exitcode = CONTINUE
    /\ \E q \in Others : [pid |-> q, msg |-> "badcmd"] \in errout

(* the positions of main and of execute_simple_command around its fork, and
   the positions of a forked process while it runs the interpreter's code *)
DriverPcs == {"prompt", "esc_fork", "esc_wait", "stopped", "fatal"}
ChildPcs  == {"in_open", "out_open", "err_open", "exec", "pipe", "fork1",
              "fork2", "child1", "child2", "parent", "wait1", "wait2"}

(* C16: a forked process is never in the driver's read loop nor back in
   execute_simple_command behind its fork: it runs the code below the fork
   until it has replaced its image or has exited, and every step it takes
   from that code leads to that code, to the exec'd program or to its end;
   the interpreter is the only process that is ever at the prompt. *)
C16_OnlyShellInDriver ==
    /\ [](\A p \in Others : proc[p].pc \notin DriverPcs)
    /\ []({p \in Pids : proc[p].pc = "prompt"} \subseteq {0})
    /\ [][\A p \in Others :
             proc[p].pc \in ChildPcs =>
                proc'[p].pc \in ChildPcs \cup {"running", "zombie", "none"}]_vars

C16_Witness ==
    /\ AtPrompt /\ Len(Line) = 3 /\ nforks = 4
    /\ \E q \in Others : [pid |-> q, msg |-> "badcmd"] \in errout
    /\ \A q \in Others : proc[q].pc = "none"

(* C17: whenever the interpreter is at the prompt its descriptor table is
   the one it started with (descriptors 0, 1, 2 and nothing else), whatever
   builtins, leaf commands, redirections and pipelines it has run; while it
   orchestrates a pipeline it holds no descriptor beyond those but the two
   ends of the pipe it created, and none once it waits. *)
C17_NoDescriptorLeak ==
    /\ AtPrompt => Shell.fd = StdFds
    /\ Shell.pc \in {"esc_fork", "esc_wait", "pipe", "wait1", "wait2"}
          => Shell.fd = StdFds
    /\ Shell.pc \in {"fork1", "fork2", "parent"} =>
          \A d \in Fds :
              IF d \in {Shell.pfd[1], Shell.pfd[2]}
              THEN Shell.fd[d].k = "pipe"
              ELSE Shell.fd[d] = StdFds[d]

C17_Witness ==
    /\ AtPrompt /\ Len(Line) = 3 /\ npipes = 2 /\ Shell.fd = StdFds
    /\ \E e \in openLog : e.ok /\ e.stream = 1
    /\ fileState["out.txt"] = "empty"

(* C18: at the prompt the interpreter has no child, running or terminated
   and not yet collected; while it waits in execute_simple_command its only
   child is the one it just forked, and the step that takes it back from
   that wait collects that child, which has terminated, and reports no
   failure of wait. *)
C18_WaitCollectsOwnChild ==
    /\ [](AtPrompt => Children(proc, 0) = {})
    /\ [](Shell.pc = "esc_wait" => Children(proc, 0) = {Shell.pid1})
    /\ [][(Shell.pc = "esc_wait" /\ proc'[0].pc # "esc_wait") =>
             /\ proc[Shell.pid1].pc = "zombie"
             /\ proc'[Shell.pid1].pc = "none"
             /\ proc'[0].pc = "prompt"
             /\ errout' = errout]_vars

C18_Witness ==
    /\ Shell.pc = "esc_wait" /\ proc[Shell.pid1].pc = "zombie"
    /\ Children(proc, 0) = {Shell.pid1}
    /\ fileState["out.txt"] = "empty"

(* the stream whose branch a process is at *)
StreamAt(pc) ==
    IF pc = "in_open" THEN "in" ELSE IF pc = "out_open" THEN "out" ELSE "err"
(* the interpreter has read a simple command and is about to fork: the file
   system is the one the redirections of that command are applied to *)
AboutToFork == Shell.pc = "esc_fork"

(* C14, as stated: the files, the child's descriptors 0..2 and whether the
   program is exec'd are the same for every order of the three branches. *)
C14_Original ==
    AboutToFork =>
        \A o \in Orders :
            Outcome(o, Line[1], fileState) = Outcome(CodeOrder, Line[1], fileState)

(* C14, amended: the child applies the branches in the order in, out, err:
   each of its steps is the branch it is at, applied to the file system and
   to its descriptors, and a branch whose open fails ends it.  When every
   open succeeds in that order and the program is exec'd, every other order
   gives the same files, the same descriptors 0..2 and the exec.  (When an
   open fails the branches before it have taken effect and those behind it
   have not, so nothing is said for that case.) *)
C14_OrderWhenOpensSucceed ==
    /\ [](AboutToFork =>
            LET code == Outcome(CodeOrder, Line[1], fileState)
            IN  code.execd =>
                   \A o \in Orders : Outcome(o, Line[1], fileState) = code)
    /\ [][\A p \in Others :
             (proc[p].pc \in {"in_open", "out_open", "err_open"}
              /\ proc'[p] # proc[p]) =>
                LET st == Branch([fs |-> fileState, fd |-> proc[p].fd, ok |-> TRUE],
                                 Leaf(p), StreamAt(proc[p].pc))
                IN  /\ fileState' = st.fs
                    /\ st.ok => (proc'[p].fd = st.fd /\ Alive(proc', p))
                    /\ ~st.ok => ~Alive(proc', p)]_vars

C14_Witness ==
    /\ \E q \in Others :
          /\ proc[q].pc = "running"
          /\ proc[q].fd[0] = FileObj("out.txt") /\ proc[q].fd[1] = FileObj("out.txt")
    /\ Line[1].err = NULL
    /\ fileState["out.txt"] = "empty"

(* the opens of inputPath and outputPath that failed since the line was read *)
FailedOpens == {e \in openLog : ~e.ok /\ e.stream \in {0, 1}}

(* C15: the step in which the open of inputPath or outputPath fails ends the
   child that made it with a status other than 0, before any exec, and
   leaves the interpreter and the files as they were; from then on no
   process runs or is about to run the program, no further process is
   forked and no further open is made, the interpreter keeps its
   descriptors and its working directory, only waits, and is back at the
   prompt with CONTINUE and without a child. *)
C15_OpenFailureEndsChild ==
    /\ [][(FailedOpens' \ FailedOpens # {}) =>
             \E p \in Others :
                /\ proc[p].pc \in {"in_open", "out_open"}
                /\ proc'[p].pc = "zombie" /\ proc'[p].status # 0
                /\ proc'[p].execd = NULL
                /\ proc'[0] = proc[0]
                /\ fileState' = fileState]_vars
    /\ [][(FailedOpens # {} /\ FailedOpens' # {}) =>
             (nforks' = nforks /\ openLog' = openLog)]_vars
    /\ [](FailedOpens # {} =>
             /\ nforks = 1
             /\ \A q \in Others : proc[q].pc \in {"zombie", "none"}
             /\ Shell.pc \in {"esc_wait", "prompt"}
             /\ Shell.fd = StdFds /\ Shell.cwd = Root
             /\ AtPrompt => (exitcode = CONTINUE /\ Children(proc, 0) = {}))

C15_Witness ==
    /\ AtPrompt /\ Len(Line) = 1
    /\ Line[1].in = "in.txt" /\ Line[1].out = "ro.txt"
    /\ \E e \in openLog : e.ok /\ e.stream = 0
    /\ \E e \in FailedOpens : e.stream = 1 /\ e.path = "ro.txt"
    /\ exitcode = CONTINUE /\ nforks = 1

(* ------------------------- data flow properties ----------------------- *)
(* the process that orchestrates the node whose left stage is k *)
OrchOf(k) == {o \in Pids : Alive(proc, o) /\ proc[o].lo = k /\ proc[o].hi > k
                           /\ proc[o].pc \in {"fork1", "fork2", "parent",
                                              "wait1", "wait2"}}
(* the process that ran stage k has exited: it is the terminated first
   child of that orchestrator, or has been collected by it *)
StageExited(k) ==
    \E o \in OrchOf(k) :
        \/ proc[o].pc \in {"fork2", "parent", "wait1"} /\ proc[proc[o].pid1].pc = "zombie"
        \/ proc[o].pc = "wait2"
(* the orchestrator of stage k has closed its two ends and its second child
   is through its close/dup2/close *)
WiredUp(k) ==
    \E o \in OrchOf(k) :
        /\ proc[o].pc \in {"wait1", "wait2"}
        /\ proc[proc[o].pid2].pc # "child2"
UsedPipes == {i \in PipeIds : pipeStage[i] > 0 /\ OrchOf(pipeStage[i]) # {}}
Running == IsPipeline /\ ~AtPrompt
Returned == AtPrompt /\ \A q \in Others : proc[q].pc = "none"
(* every stage but the first ends at the end of its input, and the first
   ends on its own *)
EndsAtEof ==
    /\ IsPipeline
    /\ Line[1].prog \in {"seq", "prog", "false", "badcmd"}
    /\ \A k \in 2..Len(Line) : Line[k].prog \in {"cat", "wc", "badcmd"}

(* the positions from which a process goes on to close the write end of
   its pipe without waiting for anything *)
ClosingPcs == {"fork2", "parent", "child2"}

(* C12: in a pipeline, when the process that ran a stage has exited, the
   write end of the pipe on that stage's right is held by no process but the
   orchestrator and its second child while they are on their way to closing
   it, which they do without waiting for anything; once they are through
   their descriptor setup no process holds it, so a read on that pipe finds
   the end of input as soon as the buffer is empty; and a pipeline whose
   first stage ends on its own and whose other stages end at the end of
   their input returns to the prompt with every process gone. *)
C12_WriteEndsClosed ==
    /\ [](\A i \in UsedPipes :
            StageExited(pipeStage[i]) =>
               /\ \A q \in Writers(i) : proc[q].pc \in ClosingPcs
               /\ WiredUp(pipeStage[i]) => Writers(i) = {})
    /\ (Running /\ EndsAtEof) ~> Returned

C12_Witness ==
    /\ Line = Chain(3) /\ Shell.pc = "wait2"
    /\ \E o \in Others : \E i \in PipeIds :
          /\ proc[o].pc = "wait1" /\ pipeStage[i] = 2 /\ proc[o].lo = 2
          /\ proc[proc[o].pid1].pc = "running"
          /\ proc[proc[o].pid2].pc = "running"
          /\ pipeBuf[i] = PipeCap
    /\ \E i \in PipeIds : pipeStage[i] = 1 /\ Writers(i) = {} /\ Readers(i) # {}

(* C13: a process that waits has forked both children of its pipe, and
   both are still its children when the first wait starts; every pipeline
   returns to the prompt with every process collected: the writer of more
   bytes than the pipe holds with the reader that drains it, the endless
   writer whose reader stops early (the second child ends first and stays
   terminated until the first has been collected), the stage that ends
   without writing. *)
C13_WaitOrder ==
    /\ [](\A p \in Pids :
            Orchestrating(p) =>
               /\ proc[p].pid1 \in Others /\ proc[p].pid2 \in Others
               /\ proc[p].pid1 # proc[p].pid2
               /\ proc[p].pc = "wait1" =>
                     {proc[p].pid1, proc[p].pid2} \subseteq Children(proc, p)
               /\ proc[p].pc = "wait2" => proc[p].pid2 \in Children(proc, p))
    /\ Running ~> Returned

C13_Witness ==
    /\ Line = <<Plain("yes"), Plain("head")>>
    /\ Shell.pc = "wait1"
    /\ proc[Shell.pid1].pc = "running" /\ proc[Shell.pid2].pc = "zombie"
    /\ \E i \in PipeIds : pipeStage[i] = 1 /\ Readers(i) = {} /\ pipeBuf[i] > 0

(* every living process is through its descriptor setup: it runs its
   program or waits for its children *)
SetupComplete ==
    /\ Running
    /\ \A q \in Pids : Alive(proc, q) => proc[q].pc \in {"running", "wait1", "wait2"}
PipeOf(k) == {i \in UsedPipes : pipeStage[i] = k}
(* the redirection replaced the pipe end on the process that exec's stage k *)
FileReplacedPipe ==
    \A p \in Others :
        (LeafReady(p) /\ Len(proc[p].cmd) >= 2) =>
            /\ Leaf(p).out # NULL =>
                  (proc[p].fd[1] = FileObj(Leaf(p).out)
                   /\ \A i \in PipeIds : ~Holds(p, i, "w"))
            /\ Leaf(p).in # NULL =>
                  (proc[p].fd[0] = FileObj(Leaf(p).in)
                   /\ \A i \in PipeIds : ~Holds(p, i, "r"))

(* C19, as stated: the file replaces the pipe end on the redirected stage,
   and once setup is complete no process holds the write end of the pipe on
   the right of a stage with outputPath, nor the read end of the pipe on the
   left of a stage with inputPath. *)
C19_Original ==
    /\ FileReplacedPipe
    /\ SetupComplete =>
          \A k \in 1..(Len(Line) - 1) :
              /\ Line[k].out # NULL => \A i \in PipeOf(k) : Writers(i) = {}
              /\ Line[k + 1].in # NULL => \A i \in PipeOf(k) : Readers(i) = {}

(* C19, amended: the file replaces the pipe end on the redirected stage and
   nothing is ever written to a pipe whose left stage has outputPath; once
   setup is complete no process holds the write end of that pipe; the read
   end of the pipe on the left of a stage with inputPath is then held by no
   process when that stage is the last one, and otherwise only, as
   descriptor 0, by the nested orchestrating child of the stages to the
   right, until that child has collected them and exits. *)
C19_FileReplacesPipe ==
    /\ FileReplacedPipe
    /\ \A k \in 1..(Len(Line) - 1) :
          /\ Line[k].out # NULL => \A i \in PipeOf(k) : pipeBuf[i] = 0
          /\ SetupComplete =>
                /\ Line[k].out # NULL => \A i \in PipeOf(k) : Writers(i) = {}
                /\ Line[k + 1].in # NULL =>
                      \A i \in PipeOf(k) :
                          /\ k + 1 = Len(Line) => Readers(i) = {}
                          /\ \A q \in Readers(i) :
                                /\ Orchestrating(q) /\ proc[q].lo = k + 1
                                /\ proc[q].fd[0] = PipeEnd(i, "r")

C19_Witness ==
    /\ SetupComplete /\ Len(Line) = 3 /\ Line[2].in = "in.txt"
    /\ \E q \in Others : \E i \in PipeOf(1) :
          /\ proc[q].pc = "wait1" /\ proc[q].fd[0] = PipeEnd(i, "r")
          /\ proc[proc[q].pid1].pc = "running"
          /\ proc[proc[q].pid1].fd[0] = FileObj("in.txt")
          /\ pipeBuf[i] = PipeCap
          /\ Writers(i) # {}
====
